---- MODULE Spec2Model ----
(***************************************************************************)
(* silver-platter: script_runner (silver_platter/apply.py and              *)
(* silver_platter/debian/apply.py).  One run of script_runner on a         *)
(* working tree, with the child script as a concurrent process that acts   *)
(* on the tree, on the side-channel files and on its standard output.      *)
(*                                                                         *)
(* Python values:                                                          *)
(*   Optional[T]   None is <<>>, a value v is <<v>>                        *)
(*   str           a TLA+ string                                           *)
(*   bytes         revision ids are naturals; captured output is a tuple   *)
(*                 of byte values                                          *)
(*   dict          tag dictionaries are sequences of <<name, revid>> with  *)
(*                 unique names (insertion order is iteration order)       *)
(***************************************************************************)
EXTENDS Integers, Sequences, FiniteSets, TLC

\* ---------------------------------------------------------------- bounds
MaxScriptCommits == 1

\* ------------------------------------------------------- Optional values
None == <<>>
Some(v) == <<v>>
Get(o) == o[1]

\* Python truth value of an Optional[str] / Optional[bool]
TruthyStr(o) == o # None /\ Get(o) # ""
\* mutant: `is not None` in place of the truth value
TruthyBool_not_none(o) == o # None

TruthyBool(o) == o # None /\ Get(o)

\* ------------------------------------------------------------ small sets
Variants == {"generic", "debian"}
Scripts == {"script.sh", "fix.sh"}
ExitCodes == {0, 3}
TagNames == {"v1", "v2"}
SourceNames == {"hello"}
\* the packages of two runs in one process
ThreadSourceNames == SourceNames \cup {"world"}
\* the clean trees a run may start on (main calls check_clean_tree first)
InitialTrees ==
  {[tip |-> 1, pending |-> FALSE, tags |-> t, changelog |-> << >>] :
     t \in {<< >>, << <<"v1", 1>> >>}}

\* captured standard output of the child, as bytes
Stdouts == {<< >>, <<79, 75>>}

\* bytes.decode(): UTF-8 bytes to text
decode(b) ==
  IF b = << >> THEN ""
  ELSE IF b = <<79, 75>> THEN "OK"
  ELSE "?"

\* str.encode('utf-8') of a revision id written as text in the payload
encode(t) ==
  IF t = "rev-1" THEN 1
  ELSE IF t = "rev-2" THEN 2
  ELSE IF t = "rev-3" THEN 3
  ELSE 0

\* ------------------------------------------------------- the file system
TdPath == "/tmp/td"
\* the temporary directory of a second run in the same process
TdPath2 == "/tmp/td2"
ResultPath2 == "/tmp/td2/result.json"
ResultPath == "/tmp/td/result.json"
ResumePath == "/tmp/td/resume-metadata.json"
StaleResultPath == "/stale/result.json"
StaleResumePath == "/stale/resume.json"
Paths == {TdPath, ResultPath, ResumePath, StaleResultPath, StaleResumePath}

os_path_join(d, f) ==
  IF d = TdPath /\ f = "result.json" THEN ResultPath
  ELSE IF d = TdPath /\ f = "resume-metadata.json" THEN ResumePath
  ELSE IF d = TdPath2 /\ f = "result.json" THEN ResultPath2
  ELSE "?"

os_path_dirname(p) ==
  IF p \in {ResultPath, ResumePath} THEN TdPath
  ELSE IF p \in {StaleResultPath, StaleResumePath} THEN "/stale"
  ELSE "?"

Absent == [kind |-> "absent"]
Directory == [kind |-> "dir"]
EmptyFile == [kind |-> "empty"]
Malformed == [kind |-> "malformed"]
JsonFile(data) == [kind |-> "json", data |-> data]

\* the documents a script may leave in the result file
PayloadDescriptions == {None, Some(""), Some("Fix typo")}
PayloadTags == {None, Some(<< >>), Some(<< <<"v2", "rev-2">> >>)}
Payloads == [description : PayloadDescriptions, tags : PayloadTags]
ResultFileContents == {Malformed} \cup {JsonFile(d) : d \in Payloads}

\* resume metadata a caller may pass: None, an empty dict, a non-empty dict
EmptyMetadata == [kind |-> "dict", items |-> 0]
SomeMetadata == [kind |-> "dict", items |-> 1]
ResumeMetadatas == {None, Some(EmptyMetadata), Some(SomeMetadata)}
TruthyMetadata(rm) == rm # None /\ Get(rm).items > 0

\* -------------------------------------------------------- the environment
EnvVars == {"SVP_API", "SVP_RESULT", "SVP_RESUME", "DEB_SOURCE",
            "DEB_UPDATE_CHANGELOG"}
EmptyEnviron == [v \in EnvVars |-> None]
StaleEnviron ==
  [v \in EnvVars |->
     IF v = "SVP_API" THEN Some("0")
     ELSE IF v = "SVP_RESULT" THEN Some(StaleResultPath)
     ELSE IF v = "SVP_RESUME" THEN Some(StaleResumePath)
     ELSE None]
InitialEnvirons == {EmptyEnviron, StaleEnviron}

\* if update_changelog is None: dch_guess = guess_update_changelog(...)
resolve_update_changelog(update, dch_guess) ==
  IF update = None
  THEN (IF dch_guess # None THEN dch_guess ELSE Some(TRUE))
  ELSE update

\* if source_name: os.environ['DEB_SOURCE'] = source_name
set_deb_source(environ, name) ==
  [environ EXCEPT !["DEB_SOURCE"] = IF name # "" THEN Some(name) ELSE @]

\* os.environ['DEB_UPDATE_CHANGELOG'] = 'update' or 'leave'
set_deb_update_changelog(environ, update) ==
  [environ EXCEPT !["DEB_UPDATE_CHANGELOG"] =
     IF update # None /\ update # Some(FALSE) THEN Some("update")
     ELSE Some("leave")]

\* env = dict(os.environ); env['SVP_API'] = '1'
copy_environ(environ) == [environ EXCEPT !["SVP_API"] = Some("1")]

\* env['SVP_RESULT'] = os.path.join(td, 'result.json')
set_svp_result(e, td) ==
  [e EXCEPT !["SVP_RESULT"] = Some(os_path_join(td, "result.json"))]

\* ------------------------------------------------------- tag dictionaries
HasTag(m, name) == \E i \in 1..Len(m) : m[i][1] = name

\* dict.get(name)
TagGet(m, name) ==
  IF HasTag(m, name)
  THEN Some(m[CHOOSE i \in 1..Len(m) : m[i][1] = name][2])
  ELSE None

\* dict[name] = revid: an existing key keeps its position
TagSet(m, name, revid) ==
  IF HasTag(m, name)
  THEN [i \in 1..Len(m) |-> IF m[i][1] = name THEN <<name, revid>> ELSE m[i]]
  ELSE Append(m, <<name, revid>>)

TagDelete(m, name) == SelectSeq(m, LAMBDA e : e[1] # name)

VARIABLES
  variant,            \* which script_runner is running
  script,             \* argument: the command
  commit_pending,     \* argument and local: Optional[bool]
  arg_commit_pending, \* history: commit_pending as the caller passed it
  resume_metadata,    \* argument
  update_changelog,   \* argument and local (Debian): Optional[bool]
  source_name,        \* Debian: cl[0].package
  os_environ,         \* os.environ of the orchestrator process
  env,                \* local: the environment prepared for the child
  tree,               \* local_tree: [tip, pending, tags, changelog]
  last_revision,      \* local: Optional revid
  orig_tags,          \* local
  new_revision,       \* local: Optional revid
  fs,                 \* the files and directories, by path
  p,                  \* the child process
  description_encoded,\* local: captured standard output
  data,               \* local: Optional, the document json.load returned
  result,             \* local: the CommandResult
  decoded,            \* history: how result was built
  after_script,       \* history: the tree when the child exited
  commit_calls,       \* history: the calls of tree.commit
  raised,             \* the exception script_runner ended with
  returned,           \* script_runner returned result
  pc,
  run,                \* the number of the run on this tree: 1 or 2
  first,              \* history: Optional, what the first run did
  threads,            \* two runs in two threads of one process
  main,               \* the frame of main(), Optional
  changer             \* the frame of a call of a Debian changer, Optional

vars == <<variant, script, commit_pending, arg_commit_pending,
          resume_metadata, update_changelog, source_name, os_environ, env,
          tree, last_revision, orig_tags, new_revision, fs, p,
          description_encoded, data, result, decoded, after_script,
          commit_calls, raised, returned, pc, run, first, threads, main,
          changer>>

\* the arguments of the run and the Debian source name, and the callers'
\* variables, which no step of script_runner changes
args == <<variant, script, arg_commit_pending, resume_metadata, source_name,
          run, first, threads, main, changer>>

NoException == [exc |-> "", args |-> << >>]
NoProcess == [state |-> "none", env |-> EmptyEnviron, returncode |-> 0,
              stdout |-> << >>]

\* CommandResult(): the dataclass defaults
CommandResult ==
  [description |-> None, tags |-> Some(<< >>),
   old_revision |-> None, new_revision |-> None]

Init ==
  /\ variant \in Variants
  /\ script \in Scripts
  /\ commit_pending \in {None, Some(TRUE), Some(FALSE)}
  /\ arg_commit_pending = commit_pending
  /\ resume_metadata \in ResumeMetadatas
  /\ update_changelog \in
       IF variant = "debian" THEN {None, Some(TRUE), Some(FALSE)} ELSE {None}
  /\ source_name \in IF variant = "debian" THEN SourceNames ELSE {""}
  /\ os_environ \in InitialEnvirons
  /\ env = EmptyEnviron
  /\ tree \in InitialTrees
  /\ last_revision = None
  /\ orig_tags = << >>
  /\ new_revision = None
  /\ fs = [q \in Paths |-> Absent]
  /\ p = NoProcess
  /\ description_encoded = << >>
  /\ data = None
  /\ result = CommandResult
  /\ decoded = "no"
  /\ after_script = None
  /\ commit_calls = << >>
  /\ raised = NoException
  /\ returned = FALSE
  /\ pc = IF variant = "debian" THEN "prologue" ELSE "snapshot"
  /\ run = 1
  /\ first = None
  /\ threads = << >>
  /\ main = None
  /\ changer = None

\* -------------------------------------------------- collaborators' effects
\* mutant: the directory is made with mkdtemp and never removed
cleanup_keep(f) == f

\* TemporaryDirectory.__exit__: the directory and its contents are removed
cleanup(f) ==
  [q \in Paths |->
     IF q = TdPath \/ os_path_dirname(q) = TdPath THEN Absent ELSE f[q]]

\* tempfile.TemporaryDirectory().__enter__
mkdtemp(f) == [f EXCEPT ![TdPath] = Directory]

\* a Python file object opened on a path
FileObject(path) == [kind |-> "file", path |-> path]

\* json.dump(obj, fp): serialises obj, then writes the text to fp
json_dump(obj, fp) ==
  IF obj.kind # "dict"
  THEN [exc |-> "TypeError", path |-> "", content |-> Absent]
  ELSE IF fp.kind # "file"
  THEN [exc |-> "AttributeError", path |-> "", content |-> Absent]
  ELSE [exc |-> "", path |-> fp.path, content |-> JsonFile(obj)]

\* the tags loop of CommandResult.from_json
from_json_tags(l) == [i \in 1..Len(l) |-> <<l[i][1], encode(l[i][2])>>]

\* CommandResult.from_json(data)
from_json(d) ==
  [description |-> d.description,
   tags |-> IF d.tags # None THEN Some(from_json_tags(Get(d.tags)))
            ELSE None,
   old_revision |-> None, new_revision |-> None]

\* mutant: only tags that did not exist before count as changed
tag_changed_new_only(orig, name, revid) == ~HasTag(orig, name)

\* if orig_tags.get(name) != revid
tag_changed(orig, name, revid) == TagGet(orig, name) # Some(revid)

\* the loop over get_tag_dict().items() that appends the changed tags
RECURSIVE tags_loop(_, _, _, _)
tags_loop(items, i, orig, acc) ==
  IF i > Len(items) THEN acc
  ELSE tags_loop(items, i + 1, orig,
                 IF tag_changed(orig, items[i][1], items[i][2])
                 THEN Append(acc, items[i])
                 ELSE acc)

\* tree.commit(message, allow_pointless=False)
tree_commit(t) ==
  IF ~t.pending
  THEN [exc |-> "PointlessCommit", tree |-> t, revid |-> t.tip]
  ELSE [exc |-> "", tree |-> [t EXCEPT !.tip = t.tip + 1, !.pending = FALSE],
        revid |-> t.tip + 1]

\* add_changelog_entry(tree, path, summary): edits debian/changelog
add_changelog_entry(t, summary) ==
  [t EXCEPT !.changelog = Append(t.changelog, summary), !.pending = TRUE]

\* ---------------------------------------------- script_runner's decisions
\* mutant: only a negative status (death by signal) counts as failure
script_failed_negative(returncode) == returncode < 0

\* if p.returncode != 0: raise ScriptFailed(script, p.returncode)
script_failed(returncode) == returncode # 0

\* mutant: only a missing description falls back, an empty one is kept
description_or_output_none_only(description, encoded) ==
  IF description = None THEN Some(decode(encoded)) ELSE description

\* if not result.description: result.description = description_encoded.decode()
description_or_output(description, encoded) ==
  IF ~TruthyStr(description) THEN Some(decode(encoded)) ELSE description

\* if result.tags is None: result.tags = [the changed tags]
tags_or_delta(tags, after, orig) ==
  IF tags = None THEN Some(tags_loop(after, 1, orig, << >>)) ELSE tags

\* mutant: the automatic commit is never switched on
auto_commit_pending_off(last, new, pending) == pending

\* mutant: auto always commits, whether or not the script committed
auto_commit_pending_always(last, new, pending) ==
  IF pending = None THEN Some(TRUE) ELSE pending

\* if last_revision == new_revision and commit_pending is None:
\*     commit_pending = True
auto_commit_pending(last, new, pending) ==
  IF last = new /\ pending = None THEN Some(TRUE) ELSE pending

\* mutant: PointlessCommit is not caught
try_commit_uncaught(t, new) ==
  LET c == tree_commit(t)
  IN [tree |-> c.tree,
      new_revision |-> IF c.exc = "" THEN Some(c.revid) ELSE new,
      exc |-> c.exc,
      escaped |-> c.exc]

\* mutant: the revision tree.commit returns is dropped
try_commit_unassigned(t, new) ==
  LET c == tree_commit(t)
  IN [tree |-> c.tree,
      new_revision |-> new,
      exc |-> c.exc,
      escaped |-> IF c.exc = "PointlessCommit" THEN "" ELSE c.exc]

\* try: new_revision = local_tree.commit(...) except PointlessCommit: pass
try_commit(t, new) ==
  LET c == tree_commit(t)
  IN [tree |-> c.tree,
      new_revision |-> IF c.exc = "" THEN Some(c.revid) ELSE new,
      exc |-> c.exc,
      escaped |-> IF c.exc = "PointlessCommit" THEN "" ELSE c.exc]

\* mutant: the no-change test is left out
made_no_changes_never(new, last) == FALSE

\* if new_revision == last_revision: raise ScriptMadeNoChanges()
made_no_changes(new, last) == new = last

\* mutant: both revisions are stamped with the current revision
stamp_revisions_current(res, last, tip) ==
  [res EXCEPT !.old_revision = Some(tip), !.new_revision = Some(tip)]

\* result.old_revision = last_revision
\* result.new_revision = local_tree.last_revision()
stamp_revisions(res, last, tip) ==
  [res EXCEPT !.old_revision = last, !.new_revision = Some(tip)]

\* mutant: the changelog is updated also when there is no description
changelog_wanted_any(debian, update, description) ==
  debian /\ TruthyBool(update)

\* debian/apply.py: if update_changelog and result.description
changelog_wanted(debian, update, description) ==
  debian /\ TruthyBool(update) /\ TruthyStr(description)

\* open(env['SVP_RESULT'], 'r')
open_read(content) == IF content = Absent THEN "FileNotFoundError" ELSE ""

\* json.load(f)
json_load(content) ==
  IF content.kind = "json"
  THEN [exc |-> "", data |-> Some(content.data)]
  ELSE [exc |-> "JSONDecodeError", data |-> None]

\* mutant: every failure to read the result counts as a missing file
except_missing_any(exc) == exc # ""

\* except FileNotFoundError
except_missing(exc) == exc = "FileNotFoundError"

\* ------------------------------------------------------------ script_runner
\* debian/apply.py: changelog policy, source name, os.environ
DebianPrologue ==
  /\ pc = "prologue"
  /\ \E dch_guess \in {None, Some(TRUE), Some(FALSE)} :
       update_changelog' = resolve_update_changelog(update_changelog, dch_guess)
  /\ os_environ' =
       set_deb_update_changelog(set_deb_source(os_environ, source_name),
                                update_changelog')
  /\ pc' = "snapshot"
  /\ UNCHANGED <<args, commit_pending, env, tree, last_revision, orig_tags,
                 new_revision, fs, p, description_encoded, data, result,
                 decoded, after_script, commit_calls, raised, returned>>

\* env = dict(os.environ) ... orig_tags = get_tag_dict()
Snapshot ==
  /\ pc = "snapshot"
  /\ env' = copy_environ(os_environ)
  /\ last_revision' = Some(tree.tip)
  /\ orig_tags' = tree.tags
  /\ pc' = "tempdir"
  /\ UNCHANGED <<args, commit_pending, update_changelog, os_environ, tree,
                 new_revision, fs, p, description_encoded, data, result,
                 decoded, after_script, commit_calls, raised, returned>>

\* with TemporaryDirectory() as td: ... json.dump(f, resume_metadata)
EnterTempDir ==
  /\ pc = "tempdir"
  /\ IF TruthyMetadata(resume_metadata)
     THEN LET path == os_path_join(TdPath, "resume-metadata.json")
              opened == [mkdtemp(fs) EXCEPT ![path] = EmptyFile]
              dump == json_dump(FileObject(path), Get(resume_metadata))
          IN /\ env' = [env EXCEPT
                          !["SVP_RESULT"] =
                             Some(os_path_join(TdPath, "result.json")),
                          !["SVP_RESUME"] = Some(path)]
             /\ IF dump.exc # ""
                THEN /\ raised' = [exc |-> dump.exc, args |-> << >>]
                     /\ fs' = cleanup(opened)
                     /\ pc' = "done"
                ELSE /\ raised' = raised
                     /\ fs' = [opened EXCEPT ![dump.path] = dump.content]
                     /\ pc' = "popen"
     ELSE /\ env' = set_svp_result(env, TdPath)
          /\ fs' = mkdtemp(fs)
          /\ pc' = "popen"
          /\ UNCHANGED raised
  /\ UNCHANGED <<args, commit_pending, update_changelog, os_environ, tree,
                 last_revision, orig_tags, new_revision, p,
                 description_encoded, data, result, decoded, after_script,
                 commit_calls, returned>>

\* p = subprocess.Popen(script, ..., env=env)
Popen ==
  /\ pc = "popen"
  /\ p' = [state |-> "running", env |-> env, returncode |-> 0,
           stdout |-> << >>]
  /\ pc' = "communicate"
  /\ UNCHANGED <<args, commit_pending, update_changelog, os_environ, env,
                 tree, last_revision, orig_tags, new_revision, fs,
                 description_encoded, data, result, decoded, after_script,
                 commit_calls, raised, returned>>

\* ------------------------------------------------------- the child script
ScriptUnchanged ==
  UNCHANGED <<args, commit_pending, update_changelog, os_environ, env,
              last_revision, orig_tags, new_revision, description_encoded,
              data, result, decoded, after_script, commit_calls, raised,
              returned, pc>>

ScriptEdit ==
  /\ p.state = "running"
  /\ ~tree.pending
  /\ tree' = [tree EXCEPT !.pending = TRUE]
  /\ UNCHANGED <<fs, p>>
  /\ ScriptUnchanged

ScriptCommit ==
  /\ p.state = "running"
  /\ tree.tip - Get(last_revision) < MaxScriptCommits
  /\ tree' = [tree EXCEPT !.tip = tree.tip + 1, !.pending = FALSE]
  /\ UNCHANGED <<fs, p>>
  /\ ScriptUnchanged

ScriptSetTag(name) ==
  /\ p.state = "running"
  /\ TagGet(tree.tags, name) # Some(tree.tip)
  /\ tree' = [tree EXCEPT !.tags = TagSet(tree.tags, name, tree.tip)]
  /\ UNCHANGED <<fs, p>>
  /\ ScriptUnchanged

ScriptDeleteTag(name) ==
  /\ p.state = "running"
  /\ HasTag(tree.tags, name)
  /\ tree' = [tree EXCEPT !.tags = TagDelete(tree.tags, name)]
  /\ UNCHANGED <<fs, p>>
  /\ ScriptUnchanged

\* the script writes a document to the path $SVP_RESULT names
ScriptWriteResult(content) ==
  /\ p.state = "running"
  /\ p.env["SVP_RESULT"] # None
  /\ LET path == Get(p.env["SVP_RESULT"])
     IN /\ path \in Paths
        /\ fs[os_path_dirname(path)] = Directory
        /\ fs[path] = Absent
        /\ fs' = [fs EXCEPT ![path] = content]
  /\ UNCHANGED <<tree, p>>
  /\ ScriptUnchanged

ScriptPrint(bytes) ==
  /\ p.state = "running"
  /\ p.stdout = << >>
  /\ bytes # << >>
  /\ p' = [p EXCEPT !.stdout = bytes]
  /\ UNCHANGED <<tree, fs>>
  /\ ScriptUnchanged

ScriptExit(code) ==
  /\ p.state = "running"
  /\ p' = [p EXCEPT !.state = "exited", !.returncode = code]
  /\ UNCHANGED <<tree, fs>>
  /\ ScriptUnchanged

\* --------------------------------------------- script_runner, after launch
\* (description_encoded, err) = p.communicate(b""); the returncode test
Communicate ==
  /\ pc = "communicate"
  /\ p.state = "exited"
  /\ description_encoded' = p.stdout
  /\ after_script' = Some(tree)
  /\ IF script_failed(p.returncode)
     THEN /\ raised' = [exc |-> "ScriptFailed",
                        args |-> <<script, p.returncode>>]
          /\ fs' = cleanup(fs)
          /\ pc' = "done"
     ELSE /\ pc' = "decode"
          /\ UNCHANGED <<raised, fs>>
  /\ UNCHANGED <<args, commit_pending, update_changelog, os_environ, env,
                 tree, last_revision, orig_tags, new_revision, p, data,
                 result, decoded, commit_calls, returned>>

\* try: open(env['SVP_RESULT']) ... except FileNotFoundError; end of with
Decode ==
  /\ pc = "decode"
  /\ LET content == fs[Get(env["SVP_RESULT"])]
         loaded == json_load(content)
         exc == IF open_read(content) # "" THEN open_read(content)
                ELSE loaded.exc
     IN IF exc = ""
        THEN /\ data' = loaded.data
             /\ result' = from_json(Get(loaded.data))
             /\ decoded' = "json"
             /\ pc' = "reconcile"
             /\ UNCHANGED raised
        ELSE IF except_missing(exc)
        THEN /\ result' = CommandResult
             /\ decoded' = "default"
             /\ pc' = "reconcile"
             /\ UNCHANGED <<data, raised>>
        ELSE /\ raised' = [exc |-> exc, args |-> << >>]
             /\ decoded' = "error"
             /\ pc' = "done"
             /\ UNCHANGED <<data, result>>
  /\ fs' = cleanup(fs)
  /\ UNCHANGED <<args, commit_pending, update_changelog, os_environ, env,
                 tree, last_revision, orig_tags, new_revision, p,
                 description_encoded, after_script, commit_calls, returned>>

\* description fallback, new_revision, tags, the forced commit_pending
Reconcile ==
  /\ pc = "reconcile"
  /\ result' =
       [result EXCEPT
          !.description =
             description_or_output(result.description, description_encoded),
          !.tags = tags_or_delta(result.tags, tree.tags, orig_tags)]
  /\ new_revision' = Some(tree.tip)
  /\ commit_pending' =
       auto_commit_pending(last_revision, new_revision', commit_pending)
  /\ pc' = IF TruthyBool(commit_pending')
           THEN IF changelog_wanted(variant = "debian", update_changelog,
                                    result'.description)
                THEN "changelog"
                ELSE "commit"
           ELSE "finish"
  /\ UNCHANGED <<args, update_changelog, os_environ, env, tree,
                 last_revision, orig_tags, fs, p, description_encoded, data,
                 decoded, after_script, commit_calls, raised, returned>>

\* debian/apply.py: add_changelog_entry(local_tree, ..., result.description)
AddChangelogEntry ==
  /\ pc = "changelog"
  /\ tree' = add_changelog_entry(tree, Get(result.description))
  /\ pc' = "commit"
  /\ UNCHANGED <<args, commit_pending, update_changelog, os_environ, env,
                 last_revision, orig_tags, new_revision, fs, p,
                 description_encoded, data, result, decoded, after_script,
                 commit_calls, raised, returned>>

\* the commit of the pending changes
Commit ==
  /\ pc = "commit"
  /\ LET c == try_commit(tree, new_revision)
     IN /\ tree' = c.tree
        /\ new_revision' = c.new_revision
        /\ commit_calls' =
             Append(commit_calls,
                    [message |-> Get(result.description), exc |-> c.exc,
                     td |-> fs[TdPath], changelog |-> tree.changelog])
        /\ IF c.escaped # ""
           THEN /\ raised' = [exc |-> c.escaped, args |-> << >>]
                /\ pc' = "done"
           ELSE /\ pc' = "finish"
                /\ UNCHANGED raised
  /\ UNCHANGED <<args, commit_pending, update_changelog, os_environ, env,
                 last_revision, orig_tags, fs, p, description_encoded, data,
                 result, decoded, after_script, returned>>

\* the no-change test; old_revision, new_revision; return result
Finish ==
  /\ pc = "finish"
  /\ IF made_no_changes(new_revision, last_revision)
     THEN /\ raised' = [exc |-> "ScriptMadeNoChanges", args |-> << >>]
          /\ UNCHANGED <<result, returned>>
     ELSE /\ result' = stamp_revisions(result, last_revision, tree.tip)
          /\ returned' = TRUE
          /\ UNCHANGED raised
  /\ pc' = "done"
  /\ UNCHANGED <<args, commit_pending, update_changelog, os_environ, env,
                 tree, last_revision, orig_tags, new_revision, fs, p,
                 description_encoded, data, decoded, after_script,
                 commit_calls>>

Script ==
  \/ ScriptEdit
  \/ ScriptCommit
  \/ \E name \in TagNames : ScriptSetTag(name)
  \/ \E name \in TagNames : ScriptDeleteTag(name)
  \/ \E content \in ResultFileContents : ScriptWriteResult(content)
  \/ \E bytes \in Stdouts : ScriptPrint(bytes)
  \/ \E code \in ExitCodes : ScriptExit(code)

Next ==
  \/ DebianPrologue
  \/ Snapshot
  \/ EnterTempDir
  \/ Popen
  \/ Script
  \/ Communicate
  \/ Decode
  \/ Reconcile
  \/ AddChangelogEntry
  \/ Commit
  \/ Finish

Spec == Init /\ [][Next]_vars

\* ------------------------------------------------- a second run on the tree
\* the result file the child of this run left
ResultFileLeft == IF decoded = "json" THEN JsonFile(Get(data)) ELSE Absent

\* the caller runs script_runner again, with the same arguments, on the tree
\* a run that ended with ScriptMadeNoChanges left
Rerun ==
  /\ pc = "done"
  /\ run = 1
  /\ raised.exc = "ScriptMadeNoChanges"
  /\ run' = 2
  /\ first' = Some([tip |-> Get(last_revision), after |-> Get(after_script),
                    stdout |-> p.stdout, file |-> ResultFileLeft])
  /\ commit_pending' = arg_commit_pending
  /\ env' = EmptyEnviron
  /\ last_revision' = None
  /\ orig_tags' = << >>
  /\ new_revision' = None
  /\ p' = NoProcess
  /\ description_encoded' = << >>
  /\ data' = None
  /\ result' = CommandResult
  /\ decoded' = "no"
  /\ after_script' = None
  /\ commit_calls' = << >>
  /\ raised' = NoException
  /\ returned' = FALSE
  /\ pc' = IF variant = "debian" THEN "prologue" ELSE "snapshot"
  /\ UNCHANGED <<variant, script, arg_commit_pending, resume_metadata,
                 source_name, update_changelog, os_environ, tree, fs,
                 threads, main, changer>>

\* the same script, run again: it exits 0 again, prints and writes the same
\* and makes the same edits and tags
ScriptReplay ==
  /\ run = 2
  /\ p.state = "running"
  /\ p' = [p EXCEPT !.state = "exited", !.returncode = 0,
                    !.stdout = Get(first).stdout]
  /\ tree' = [tree EXCEPT !.pending = @ \/ Get(first).after.pending,
                          !.tags = Get(first).after.tags]
  /\ fs' = [fs EXCEPT ![Get(p.env["SVP_RESULT"])] = Get(first).file]
  /\ ScriptUnchanged

FirstRun == run = 1 /\ Script

Next14 ==
  \/ DebianPrologue
  \/ Snapshot
  \/ EnterTempDir
  \/ Popen
  \/ FirstRun
  \/ ScriptReplay
  \/ Communicate
  \/ Decode
  \/ Reconcile
  \/ AddChangelogEntry
  \/ Commit
  \/ Finish
  \/ Rerun

Spec14 == Init /\ [][Next14]_vars

\* ------------------------------------------------------------- properties
ExitedZero == p.state = "exited" /\ p.returncode = 0
After == Get(after_script)
Decoded == decoded \in {"default", "json"}
\* the tree as it was when script_runner was called
Before ==
  [tip |-> Get(last_revision), pending |-> FALSE, tags |-> orig_tags,
   changelog |-> << >>]
\* the tag of position j of the after mapping differs from the before mapping
Differs(after, j) == TagGet(orig_tags, after[j][1]) # Some(after[j][2])

\* C1: a run that returns a result has old_revision # new_revision, and a
\* run whose revision after the optional commit equals the revision captured
\* before the script ends with ScriptMadeNoChanges instead of returning.
C1_OldRevisionDiffers ==
  /\ returned =>
       /\ result.old_revision # None
       /\ result.new_revision # None
       /\ result.old_revision # result.new_revision
  /\ (pc = "done" /\ Decoded /\ Some(tree.tip) = last_revision) =>
       /\ raised.exc = "ScriptMadeNoChanges"
       /\ ~returned

C1_Witness ==
  /\ returned
  /\ variant = "debian"
  /\ commit_calls # << >>
  /\ commit_calls[1].exc = ""
  /\ result.new_revision = Some(Get(result.old_revision) + 1)

\* C2: a non-zero exit status ends the run with ScriptFailed(script,
\* returncode); the result file is not decoded, no revision or tag is
\* compared, tree.commit is not called and the tree is as the script left it.
C2_ScriptFailed ==
  (p.state = "exited" /\ p.returncode # 0) =>
    /\ pc \in {"communicate", "done"}
    /\ pc = "done" =>
         /\ raised = [exc |-> "ScriptFailed",
                      args |-> <<script, p.returncode>>]
         /\ ~returned
         /\ decoded = "no"
         /\ data = None
         /\ result = CommandResult
         /\ new_revision = None
         /\ commit_calls = << >>
         /\ tree = After

C2_Witness ==
  /\ pc = "done"
  /\ raised.exc = "ScriptFailed"
  /\ raised.args = <<"fix.sh", 3>>
  /\ tree.pending
  /\ tree.tip # Get(last_revision)

\* C3 (as claimed): a script that exits 0, changes nothing, commits nothing
\* and writes no result file ends the run with ScriptMadeNoChanges and no
\* new revision, in both variants and whatever it printed.
C3_NothingDoneNoChanges ==
  (pc = "done" /\ ExitedZero /\ decoded = "default" /\ After = Before) =>
    /\ raised.exc = "ScriptMadeNoChanges"
    /\ ~returned
    /\ tree.tip = Get(last_revision)

\* C4: without a 'tags' key in the payload, result.tags is the sequence of
\* the after mapping's (name, revid) with after[name] # before.get(name), in
\* the after mapping's order (deleted tags are not reported); with a 'tags'
\* key, result.tags is the payload's list with the revision ids encoded.
C4_Tags ==
  (decoded = "json" /\ pc \in {"changelog", "commit", "finish", "done"}) =>
    /\ result.tags # None
    /\ LET after == After.tags
           t == Get(result.tags)
       IN IF Get(data).tags = None
          THEN /\ \A i \in 1..Len(t) :
                    \E j \in 1..Len(after) : after[j] = t[i] /\ Differs(after, j)
               /\ \A j \in 1..Len(after) :
                    Differs(after, j) => \E i \in 1..Len(t) : t[i] = after[j]
               /\ \A i1, i2 \in 1..Len(t) :
                    i1 < i2 =>
                      \E j1, j2 \in 1..Len(after) :
                        j1 < j2 /\ after[j1] = t[i1] /\ after[j2] = t[i2]
               /\ \A k \in 1..Len(orig_tags) :
                    ~HasTag(after, orig_tags[k][1]) =>
                      \A i \in 1..Len(t) : t[i][1] # orig_tags[k][1]
          ELSE LET l == Get(Get(data).tags)
               IN /\ Len(t) = Len(l)
                  /\ \A i \in 1..Len(l) :
                       t[i] = <<l[i][1], encode(l[i][2])>>

C4_Witness ==
  /\ pc = "done"
  /\ returned
  /\ decoded = "json"
  /\ Get(data).tags = None
  /\ orig_tags # << >>
  /\ Len(Get(result.tags)) = 2

\* C5 (as claimed): without a result file, result.tags holds every tag whose
\* revision differs between the before and the after mapping, with its after
\* revision.
C5_TagsWithoutResultFile ==
  (returned /\ decoded = "default") =>
    \A j \in 1..Len(After.tags) :
      Differs(After.tags, j) =>
        \E i \in 1..Len(Get(result.tags)) :
          Get(result.tags)[i] = After.tags[j]

\* C6: with commit_pending None, a script that exits 0 with uncommitted
\* edits and no commit of its own makes the engine switch commit_pending on
\* and call tree.commit once with result.description as message; the run
\* returns the script's description and the fresh commit as new_revision.
C6_AutoCommit ==
  (/\ pc = "done"
   /\ arg_commit_pending = None
   /\ ExitedZero
   /\ Decoded
   /\ After.tip = Get(last_revision)
   /\ After.pending) =>
    /\ commit_pending = Some(TRUE)
    /\ Len(commit_calls) = 1
    /\ commit_calls[1].exc = ""
    /\ commit_calls[1].message = Get(result.description)
    /\ returned
    /\ result.new_revision = Some(tree.tip)
    /\ tree.tip = After.tip + 1
    /\ ~tree.pending
    /\ (decoded = "json" /\ TruthyStr(Get(data).description)) =>
         /\ result.description = Get(data).description
         /\ commit_calls[1].message = Get(Get(data).description)

C6_Witness ==
  /\ pc = "done"
  /\ arg_commit_pending = None
  /\ ExitedZero
  /\ decoded = "json"
  /\ Get(data).description = Some("Fix typo")
  /\ After.tip = Get(last_revision)
  /\ After.pending
  /\ returned
  /\ commit_calls[1].message = "Fix typo"

\* C7: with commit_pending None, a script that exits 0 with a commit of its
\* own and no result file makes the engine call tree.commit not at all; the
\* result spans the pre-script revision to the script's commit and its
\* description is the captured output as text.
C7_OwnCommit ==
  (/\ arg_commit_pending = None
   /\ ExitedZero
   /\ decoded = "default"
   /\ After.tip # Get(last_revision)) =>
    /\ pc \in {"reconcile", "finish", "done"}
    /\ commit_calls = << >>
    /\ tree = After
    /\ pc = "done" =>
         /\ returned
         /\ result.old_revision = last_revision
         /\ result.new_revision = Some(After.tip)
         /\ description_encoded = p.stdout
         /\ result.description = Some(decode(p.stdout))

C7_Witness ==
  /\ pc = "done"
  /\ arg_commit_pending = None
  /\ ExitedZero
  /\ decoded = "default"
  /\ After.tip # Get(last_revision)
  /\ After.pending
  /\ returned
  /\ result.description = Some("OK")

\* C8: PointlessCommit never leaves script_runner; after a pointless commit
\* the run returns (the script had advanced the revision, new_revision is
\* the script's commit) or ends with ScriptMadeNoChanges (revision unchanged).
C8_PointlessCommitAbsorbed ==
  /\ raised.exc # "PointlessCommit"
  /\ (commit_calls # << >> /\ commit_calls[1].exc = "PointlessCommit") =>
       /\ pc \in {"finish", "done"}
       /\ tree = After
       /\ pc = "done" =>
            IF After.tip # Get(last_revision)
            THEN /\ returned
                 /\ raised = NoException
                 /\ result.new_revision = Some(After.tip)
            ELSE /\ ~returned
                 /\ raised.exc = "ScriptMadeNoChanges"

C8_Witness ==
  /\ pc = "done"
  /\ commit_calls # << >>
  /\ commit_calls[1].exc = "PointlessCommit"
  /\ returned

\* C9 (as claimed): with resume metadata the child is launched with
\* SVP_RESUME naming a file in the ephemeral directory that holds the
\* metadata, and the run goes on as a run without resume metadata.
C9_ResumeMetadata ==
  (TruthyMetadata(resume_metadata) /\ pc \notin {"prologue", "snapshot", "tempdir"}) =>
    /\ raised.exc \notin {"TypeError", "AttributeError"}
    /\ pc = "popen" =>
         /\ env["SVP_RESUME"] = Some(ResumePath)
         /\ os_path_dirname(ResumePath) = TdPath
         /\ fs[ResumePath] = JsonFile(Get(resume_metadata))
    /\ pc # "popen" => p.state # "none" /\ p.env["SVP_RESUME"] = Some(ResumePath)

\* C10: the ephemeral directory and its files are gone on every exit of
\* script_runner and before tree.commit is attempted.
C10_TempDirRemoved ==
  /\ pc \in {"reconcile", "changelog", "commit", "finish", "done"} =>
       \A q \in {TdPath, ResultPath, ResumePath} : fs[q] = Absent
  /\ \A i \in 1..Len(commit_calls) : commit_calls[i].td = Absent

C10_Witness ==
  /\ pc = "done"
  /\ raised.exc = "TypeError"
  /\ env["SVP_RESUME"] = Some(ResumePath)
  /\ fs[TdPath] = Absent
  /\ fs[ResumePath] = Absent

\* C11: a result file that exists but is malformed ends the run with a
\* decode error: nothing is returned, the description fallback and the tag
\* computation do not run, tree.commit is not called; only a missing file
\* gives the default result.
C11_DecodeFailed ==
  decoded = "error" =>
    /\ pc = "done"
    /\ raised.exc = "JSONDecodeError"
    /\ ~returned
    /\ data = None
    /\ result = CommandResult
    /\ new_revision = None
    /\ commit_calls = << >>
    /\ tree = After

C11_DecodeStep ==
  pc = "decode" =>
    /\ decoded' = "default" <=> fs[ResultPath] = Absent
    /\ fs[ResultPath] = Malformed =>
         /\ decoded' = "error"
         /\ raised'.exc = "JSONDecodeError"
         /\ pc' = "done"

C11_MalformedResult == []C11_DecodeFailed /\ [][C11_DecodeStep]_vars

C11_Witness ==
  /\ pc = "done"
  /\ ExitedZero
  /\ decoded = "error"
  /\ raised.exc = "JSONDecodeError"
  /\ tree.pending

\* C12: with commit_pending False tree.commit is never called: a script
\* that committed gives a result from the pre-script revision to its last
\* commit, a script that only edited ends the run with ScriptMadeNoChanges
\* and its edits stay uncommitted.
C12_NeverCommit ==
  arg_commit_pending = Some(FALSE) =>
    /\ commit_pending = Some(FALSE)
    /\ commit_calls = << >>
    /\ pc \notin {"changelog", "commit"}
    /\ tree.changelog = << >>
    /\ after_script # None => tree = After
    /\ (pc = "done" /\ ExitedZero /\ Decoded) =>
         IF After.tip # Get(last_revision)
         THEN /\ returned
              /\ result.old_revision = last_revision
              /\ result.new_revision = Some(After.tip)
         ELSE /\ ~returned
              /\ raised.exc = "ScriptMadeNoChanges"

C12_Witness ==
  /\ pc = "done"
  /\ arg_commit_pending = Some(FALSE)
  /\ ExitedZero
  /\ After.tip = Get(last_revision)
  /\ tree.pending
  /\ raised.exc = "ScriptMadeNoChanges"

\* C15: without a result file the result is the default one and its
\* description is the captured output as text; the same holds for a payload
\* whose description is missing or empty; a non-empty payload description
\* is kept and is the message of the engine's commit.
C15_Description ==
  (Decoded /\ pc \in {"changelog", "commit", "finish", "done"}) =>
    /\ raised.exc \notin {"FileNotFoundError", "JSONDecodeError"}
    /\ decoded = "default" =>
         /\ data = None
         /\ result.description = Some(decode(p.stdout))
    /\ (decoded = "json" /\ ~TruthyStr(Get(data).description)) =>
         result.description = Some(decode(p.stdout))
    /\ (decoded = "json" /\ TruthyStr(Get(data).description)) =>
         /\ result.description = Get(data).description
         /\ \A i \in 1..Len(commit_calls) :
              commit_calls[i].message = Get(Get(data).description)

C15_Witness ==
  /\ pc = "done"
  /\ decoded = "json"
  /\ Get(data).description = Some("")
  /\ p.stdout = <<79, 75>>
  /\ result.description = Some("OK")
  /\ commit_calls # << >>
  /\ commit_calls[1].message = "OK"

\* C16: old_revision is the revision captured before the launch, which is
\* never updated; new_revision is the tree's revision at the return, the
\* one the no-change test compared: the commit's id when the engine
\* committed, the post-script revision otherwise.
C16_Returned ==
  /\ pc \in {"tempdir", "popen"} => last_revision = Some(tree.tip)
  /\ returned =>
       /\ result.old_revision = last_revision
       /\ result.new_revision = Some(tree.tip)
       /\ result.new_revision = new_revision
       /\ new_revision =
            IF commit_calls # << >> /\ commit_calls[1].exc = ""
            THEN Some(After.tip + 1)
            ELSE Some(After.tip)

C16_SnapshotKept == last_revision # None => last_revision' = last_revision

C16_Revisions == []C16_Returned /\ [][C16_SnapshotKept]_vars

C16_Witness ==
  /\ returned
  /\ After.tip # Get(last_revision)
  /\ commit_calls # << >>
  /\ commit_calls[1].exc = ""
  /\ result.new_revision = Some(Get(result.old_revision) + 2)

\* C17: the Debian script_runner adds a changelog entry exactly when
\* commit_pending is true (given or forced), update_changelog is true and
\* the description is not empty; the entry is added before tree.commit and
\* is part of that commit; no entry is added in a run that fails or in
\* which the engine does not commit.
C17_Changelog ==
  /\ variant = "generic" => tree.changelog = << >>
  /\ (pc \notin {"commit", "finish", "done"} \/ ~Decoded) =>
       tree.changelog = << >>
  /\ (variant = "debian" /\ Decoded /\ pc \in {"commit", "finish", "done"}) =>
       (tree.changelog # << >> <=>
          /\ TruthyBool(commit_pending)
          /\ TruthyBool(update_changelog)
          /\ TruthyStr(result.description))
  /\ (pc \in {"finish", "done"} /\ tree.changelog # << >>) =>
       /\ tree.changelog = <<Get(result.description)>>
       /\ Len(commit_calls) = 1
       /\ commit_calls[1].exc = ""
       /\ commit_calls[1].changelog = tree.changelog
  /\ (pc \in {"finish", "done"} /\ commit_calls = << >>) =>
       tree.changelog = << >>

C17_Witness ==
  /\ pc = "done"
  /\ variant = "debian"
  /\ arg_commit_pending = None
  /\ returned
  /\ tree.changelog = <<"OK">>
  /\ commit_calls[1].changelog = <<"OK">>

\* ------------------------------------- two runs in two threads of a process
Threads == {1, 2}
ThreadTd(t) == IF t = 1 THEN TdPath ELSE TdPath2

\* the arguments of a run in a thread
ThreadRuns ==
  {[variant |-> "generic", source_name |-> "", update_changelog |-> None]}
  \cup [variant : {"debian"}, source_name : ThreadSourceNames,
        update_changelog : {None, Some(TRUE), Some(FALSE)}]

\* the locals of script_runner before it is called
IdleLocals ==
  /\ script = "script.sh"
  /\ commit_pending = None
  /\ arg_commit_pending = None
  /\ resume_metadata = None
  /\ update_changelog = None
  /\ env = EmptyEnviron
  /\ last_revision = None
  /\ orig_tags = << >>
  /\ new_revision = None
  /\ fs = [q \in Paths |-> Absent]
  /\ p = NoProcess
  /\ description_encoded = << >>
  /\ data = None
  /\ result = CommandResult
  /\ decoded = "no"
  /\ after_script = None
  /\ commit_calls = << >>
  /\ raised = NoException
  /\ returned = FALSE
  /\ pc = "idle"
  /\ run = 1
  /\ first = None

\* while the rest of the model is idle
Idle ==
  /\ variant = "generic"
  /\ source_name = ""
  /\ tree \in {t \in InitialTrees : t.tags = << >>}
  /\ IdleLocals

Init13 ==
  /\ Idle
  /\ main = None
  /\ changer = None
  /\ os_environ \in InitialEnvirons
  /\ \E a, b \in ThreadRuns :
       threads =
         [t \in Threads |->
            LET r == IF t = 1 THEN a ELSE b
            IN [variant |-> r.variant, source_name |-> r.source_name,
                update_changelog |-> r.update_changelog,
                pc |-> IF r.variant = "debian" THEN "guess" ELSE "copy",
                environ0 |-> os_environ, env |-> EmptyEnviron,
                child |-> None]]

ThreadUnchanged ==
  UNCHANGED <<variant, script, commit_pending, arg_commit_pending,
              resume_metadata, update_changelog, source_name, env, tree,
              last_revision, orig_tags, new_revision, fs, p,
              description_encoded, data, result, decoded, after_script,
              commit_calls, raised, returned, pc, run, first, main,
              changer>>

\* debian/apply.py: if update_changelog is None: ...
ThreadGuess(t) ==
  /\ threads[t].pc = "guess"
  /\ \E dch_guess \in {None, Some(TRUE), Some(FALSE)} :
       threads' = [threads EXCEPT
                     ![t].update_changelog =
                        resolve_update_changelog(@, dch_guess),
                     ![t].pc = "source"]
  /\ UNCHANGED os_environ
  /\ ThreadUnchanged

\* debian/apply.py: os.environ['DEB_SOURCE'] = source_name
ThreadSetSource(t) ==
  /\ threads[t].pc = "source"
  /\ os_environ' = set_deb_source(os_environ, threads[t].source_name)
  /\ threads' = [threads EXCEPT ![t].pc = "changelog"]
  /\ ThreadUnchanged

\* debian/apply.py: os.environ['DEB_UPDATE_CHANGELOG'] = ...
ThreadSetUpdateChangelog(t) ==
  /\ threads[t].pc = "changelog"
  /\ os_environ' =
       set_deb_update_changelog(os_environ, threads[t].update_changelog)
  /\ threads' = [threads EXCEPT ![t].pc = "copy"]
  /\ ThreadUnchanged

\* env = dict(os.environ); env['SVP_API'] = '1'
ThreadCopyEnviron(t) ==
  /\ threads[t].pc = "copy"
  /\ threads' = [threads EXCEPT ![t].env = copy_environ(os_environ),
                                ![t].pc = "tempdir"]
  /\ UNCHANGED os_environ
  /\ ThreadUnchanged

\* with tempfile.TemporaryDirectory() as td: env['SVP_RESULT'] = ...
ThreadTempDir(t) ==
  /\ threads[t].pc = "tempdir"
  /\ threads' = [threads EXCEPT ![t].env = set_svp_result(@, ThreadTd(t)),
                                ![t].pc = "popen"]
  /\ UNCHANGED os_environ
  /\ ThreadUnchanged

\* p = subprocess.Popen(script, ..., env=env)
ThreadPopen(t) ==
  /\ threads[t].pc = "popen"
  /\ threads' = [threads EXCEPT ![t].child = Some(threads[t].env),
                                ![t].pc = "launched"]
  /\ UNCHANGED os_environ
  /\ ThreadUnchanged

Next13 ==
  \/ \E t \in Threads : ThreadGuess(t)
  \/ \E t \in Threads : ThreadSetSource(t)
  \/ \E t \in Threads : ThreadSetUpdateChangelog(t)
  \/ \E t \in Threads : ThreadCopyEnviron(t)
  \/ \E t \in Threads : ThreadTempDir(t)
  \/ \E t \in Threads : ThreadPopen(t)

Spec13 == Init13 /\ [][Next13]_vars

\* the environment the arguments of a run and the environment the process
\* started with determine
OwnEnvironment(t) ==
  LET th == threads[t]
      base == set_svp_result(copy_environ(th.environ0), ThreadTd(t))
  IN IF th.variant = "debian"
     THEN set_deb_update_changelog(set_deb_source(base, th.source_name),
                                   th.update_changelog)
     ELSE base

\* ----------------------------------------------------------------- main
\* Recipe.from_path(args.recipe): the attributes main reads
Recipes == [command : {None, Some("fix.sh")},
            commit_pending : {None, Some(TRUE), Some(FALSE)}]

\* the parsed command line
Argvs ==
  [command : {None, Some("script.sh")},
   commit_pending : {None, Some("yes"), Some("no"), Some("auto")},
   recipe : {None} \cup {Some(r) : r \in Recipes},
   verify : BOOLEAN,
   install : BOOLEAN,
   update_changelog : {None, Some(TRUE), Some(FALSE)}]

\* the options each main has
ArgvsOf(v) ==
  IF v = "debian" THEN Argvs
  ELSE {a \in Argvs : ~a.install /\ a.update_changelog = None}

\* the tree main finds: clean, or with uncommitted changes
MainTrees ==
  {[t EXCEPT !.pending = d] :
     t \in {u \in InitialTrees : u.tags = << >>}, d \in BOOLEAN}

M == Get(main)

InitMain ==
  /\ variant \in Variants
  /\ source_name \in IF variant = "debian" THEN SourceNames ELSE {""}
  /\ os_environ = EmptyEnviron
  /\ tree \in MainTrees
  /\ IdleLocals
  /\ threads = << >>
  /\ changer = None
  /\ \E a \in ArgvsOf(variant) :
       main = Some([args |-> a, pc |-> "args", command |-> "",
                    commit_pending |-> None, opened |-> FALSE,
                    checked |-> FALSE, tip |-> None, resets |-> 0,
                    verify_exc |-> "", exc |-> "", status |-> None])

\* {"auto": None, "yes": True, "no": False}[args.commit_pending]
commit_pending_choice(c) ==
  IF c = "yes" THEN Some(TRUE)
  ELSE IF c = "no" THEN Some(FALSE)
  ELSE None

\* mutant: the recipe is asked before the flag
main_commit_pending_recipe_first(a) ==
  IF a.recipe # None THEN Get(a.recipe).commit_pending
  ELSE IF a.commit_pending # None
  THEN commit_pending_choice(Get(a.commit_pending))
  ELSE None

\* if args.commit_pending: ... elif recipe: ... else: commit_pending = None
main_commit_pending(a) ==
  IF a.commit_pending # None THEN commit_pending_choice(Get(a.commit_pending))
  ELSE IF a.recipe # None THEN Get(a.recipe).commit_pending
  ELSE None

\* if args.command: ... elif recipe.command: ... else: return 1
main_command(a) ==
  IF TruthyStr(a.command)
  THEN [exc |-> "", status |-> None, command |-> Get(a.command)]
  ELSE IF a.recipe = None
  THEN [exc |-> "AttributeError", status |-> None, command |-> ""]
  ELSE IF TruthyStr(Get(a.recipe).command)
  THEN [exc |-> "", status |-> None, command |-> Get(Get(a.recipe).command)]
  ELSE [exc |-> "", status |-> Some("1"), command |-> ""]

\* breezy.workspace.reset_tree: the working tree is reverted to its basis
reset_tree(t) == [t EXCEPT !.pending = FALSE]

\* mutant: only a failed script is handled
except_exception_script_failed(exc) == exc = "ScriptFailed"

\* except Exception:
except_exception(exc) == exc # ""

\* the outcomes of the verify command, of the build
VerifyOutcomes(v) ==
  IF v = "debian" THEN {"", "BuildFailedError", "MissingUpstreamTarball"}
  ELSE {"", "CalledProcessError"}

\* except CalledProcessError: return 1; except BuildFailedError: return False
verify_status(v) == IF v = "debian" THEN "False" ELSE "1"

\* the int a value main returns is: bool is a subclass of int, False == 0,
\* and sys.exit(False) ends the process with status 0
python_int(v) ==
  IF v = "1" THEN 1
  ELSE IF v = "True" THEN 1
  ELSE 0

\* if args.verify_command: / if args.build_verify or args.install:
verify_wanted(v, a) == a.verify \/ (v = "debian" /\ a.install)

MainUnchanged ==
  UNCHANGED <<variant, script, commit_pending, arg_commit_pending,
              resume_metadata, update_changelog, source_name, os_environ,
              env, last_revision, orig_tags, new_revision, fs, p,
              description_encoded, data, result, decoded, after_script,
              commit_calls, raised, returned, pc, run, first, threads,
              changer>>

\* recipe, commit_pending and command from the command line
MainPolicy ==
  /\ main # None
  /\ M.pc = "args"
  /\ LET c == main_command(M.args)
     IN main' = Some([M EXCEPT
                        !.commit_pending = main_commit_pending(M.args),
                        !.command = c.command,
                        !.exc = c.exc,
                        !.status = c.status,
                        !.pc = IF c.exc = "" /\ c.status = None
                               THEN "open" ELSE "done"])
  /\ UNCHANGED tree
  /\ MainUnchanged

\* local_tree, subpath = WorkingTree.open_containing('.')
MainOpen ==
  /\ main # None
  /\ M.pc = "open"
  /\ main' = Some([M EXCEPT !.opened = TRUE, !.tip = Some(tree.tip),
                            !.pc = "check"])
  /\ UNCHANGED tree
  /\ MainUnchanged

\* check_clean_tree(local_tree)
MainCheckClean ==
  /\ main # None
  /\ M.pc = "check"
  /\ main' = IF tree.pending
             THEN Some([M EXCEPT !.exc = "WorkspaceDirty", !.pc = "done"])
             ELSE Some([M EXCEPT !.checked = TRUE, !.pc = "call"])
  /\ UNCHANGED tree
  /\ MainUnchanged

\* result = script_runner(local_tree, script=command, ...)
MainCall ==
  /\ main # None
  /\ M.pc = "call"
  /\ script' = M.command
  /\ commit_pending' = M.commit_pending
  /\ arg_commit_pending' = M.commit_pending
  /\ resume_metadata' = None
  /\ update_changelog' = M.args.update_changelog
  /\ pc' = IF variant = "debian" THEN "prologue" ELSE "snapshot"
  /\ main' = Some([M EXCEPT !.pc = "running"])
  /\ UNCHANGED <<variant, source_name, os_environ, env, tree, last_revision,
                 orig_tags, new_revision, fs, p, description_encoded, data,
                 result, decoded, after_script, commit_calls, raised,
                 returned, run, first, threads, changer>>

\* except Exception: reset_tree(local_tree, subpath); raise
MainExcept(exc) ==
  IF except_exception(exc)
  THEN /\ tree' = reset_tree(tree)
       /\ main' = Some([M EXCEPT !.resets = @ + 1, !.exc = exc,
                                 !.pc = "done"])
  ELSE /\ tree' = tree
       /\ main' = Some([M EXCEPT !.exc = exc, !.pc = "done"])

\* script_runner has ended: with an exception, or with the result
MainReturned ==
  /\ main # None
  /\ M.pc = "running"
  /\ pc = "done"
  /\ IF raised.exc # ""
     THEN MainExcept(raised.exc)
     ELSE /\ main' = Some([M EXCEPT
                             !.pc = IF verify_wanted(variant, M.args)
                                    THEN "verify"
                                    ELSE "return"])
          /\ tree' = tree
  /\ MainUnchanged

\* subprocess.check_call(args.verify_command, ...) / build(local_tree, ...)
MainVerify ==
  /\ main # None
  /\ M.pc = "verify"
  /\ \E exc \in VerifyOutcomes(variant) :
       main' = IF exc # ""
               THEN Some([M EXCEPT !.verify_exc = exc,
                                   !.status = Some(verify_status(variant)),
                                   !.pc = "done"])
               ELSE Some([M EXCEPT
                            !.pc = IF variant = "debian" /\ M.args.install
                                   THEN "install" ELSE "return"])
  /\ UNCHANGED tree
  /\ MainUnchanged

\* install_built_package(local_tree, subpath, args.build_target_dir)
MainInstall ==
  /\ main # None
  /\ M.pc = "install"
  /\ \E exc \in {"", "CalledProcessError"} :
       IF exc # ""
       THEN MainExcept(exc)
       ELSE /\ main' = Some([M EXCEPT !.pc = "return"])
            /\ tree' = tree
  /\ MainUnchanged

\* if args.diff: ...; return 0
MainReturn ==
  /\ main # None
  /\ M.pc = "return"
  /\ main' = Some([M EXCEPT !.status = Some("0"), !.pc = "done"])
  /\ UNCHANGED tree
  /\ MainUnchanged

\* the child of a run main started: it edits, commits, prints, writes the
\* result file, exits
MainResultFileContents ==
  {Malformed, JsonFile([description |-> Some("Fix typo"), tags |-> None])}

MainScript ==
  \/ ScriptEdit
  \/ ScriptCommit
  \/ \E content \in MainResultFileContents : ScriptWriteResult(content)
  \/ \E bytes \in Stdouts : ScriptPrint(bytes)
  \/ \E code \in ExitCodes : ScriptExit(code)

NextMain ==
  \/ MainPolicy
  \/ MainOpen
  \/ MainCheckClean
  \/ MainCall
  \/ DebianPrologue
  \/ Snapshot
  \/ EnterTempDir
  \/ Popen
  \/ MainScript
  \/ Communicate
  \/ Decode
  \/ Reconcile
  \/ AddChangelogEntry
  \/ Commit
  \/ Finish
  \/ MainReturned
  \/ MainVerify
  \/ MainInstall
  \/ MainReturn

SpecMain == InitMain /\ [][NextMain]_vars

\* C13: two runs share no mutable state: the environment a child is launched
\* with is the one its own run determines, and the DEB_SOURCE and
\* DEB_UPDATE_CHANGELOG it sees are never those of the other run, whether the
\* runs are made one after the other or interleaved in threads.
C13_NoSharedState ==
  \A t \in Threads :
    threads[t].child # None => Get(threads[t].child) = OwnEnvironment(t)

\* C14: after a run that ended with ScriptMadeNoChanges, the same script run
\* again with the same commit_pending on the tree that run left ends with
\* ScriptMadeNoChanges too, and neither run creates a commit.
C14_Idempotent ==
  /\ raised.exc = "ScriptMadeNoChanges" =>
       /\ tree.tip = Get(last_revision)
       /\ \A i \in 1..Len(commit_calls) : commit_calls[i].exc # ""
  /\ (run = 2 /\ pc = "done") =>
       /\ raised.exc = "ScriptMadeNoChanges"
       /\ ~returned
       /\ tree.tip = Get(first).tip

C14_Witness ==
  /\ run = 2
  /\ pc = "done"
  /\ variant = "debian"
  /\ raised.exc = "ScriptMadeNoChanges"
  /\ tree.pending
  /\ p.stdout = <<79, 75>>
  /\ tree.tip = Get(first).tip

\* ------------------------------------------------------ Debian changers
\* bounds of the lists drop_old_relations returns
MaxParagraphs == 2
MaxChanges == 2
MaxPackages == 2

\* sequences over S of length 0..n
SeqUpTo(S, n) == UNION {[1..k -> S] : k \in 0..n}

\* what drop_old_relations returns: [(para, [(field, [package, ...]), ...])]
DroppedPackages == SeqUpTo({"libfoo1"}, MaxPackages)
DroppedChanges == SeqUpTo({"Depends"} \X DroppedPackages, MaxChanges)
Dropped == SeqUpTo({"foo"} \X DroppedChanges, MaxParagraphs)

\* a dict without keys
EmptyDict == << >>

\* the result dicts calculate_value may be given
MutatorResults == {EmptyDict} \cup [control : Dropped]

\* dict.get(key, default)
dict_get(d, key, default) == IF key \in DOMAIN d THEN d[key] ELSE default

\* no script_runner, no main, no threads while a changer is called
NoRun ==
  /\ Idle
  /\ os_environ = EmptyEnviron
  /\ threads = << >>
  /\ main = None

ChangerUnchanged ==
  UNCHANGED <<variant, script, commit_pending, arg_commit_pending,
              resume_metadata, update_changelog, source_name, os_environ,
              env, tree, last_revision, orig_tags, new_revision, fs, p,
              description_encoded, data, result, decoded, after_script,
              commit_calls, raised, returned, pc, run, first, threads, main>>

Ch == Get(changer)

\* scrub_obsolete.py
DEFAULT_VALUE_MULTIARCH_HINT == 30

\* for field, packages in changes: value += len(packages) * 2
RECURSIVE changes_value(_)
changes_value(changes) ==
  IF changes = << >> THEN 0
  ELSE Len(Head(changes)[2]) * 2 + changes_value(Tail(changes))

\* for para, changes in result.get('control', []): ...
RECURSIVE control_value(_)
control_value(control) ==
  IF control = << >> THEN 0
  ELSE changes_value(Head(control)[2]) + control_value(Tail(control))

\* mutant: the paragraphs are counted, not their packages
calculate_value_paragraphs(res) ==
  DEFAULT_VALUE_MULTIARCH_HINT + 2 * Len(dict_get(res, "control", << >>))

\* def calculate_value(result)
calculate_value(res) ==
  DEFAULT_VALUE_MULTIARCH_HINT + control_value(dict_get(res, "control", << >>))

InitValue ==
  /\ NoRun
  /\ \E r \in MutatorResults :
       changer = Some([name |-> "calculate_value", pc |-> "call",
                       result |-> r, value |-> 0])

\* value = calculate_value(result)
CalculateValue ==
  /\ changer # None
  /\ Ch.name = "calculate_value"
  /\ Ch.pc = "call"
  /\ changer' = Some([Ch EXCEPT !.value = calculate_value(Ch.result),
                                !.pc = "done"])
  /\ ChangerUnchanged

NextValue == CalculateValue

SpecValue == InitValue /\ [][NextValue]_vars

\* ScrubObsoleteChanger; Python values are written as their repr
\* parser.add_argument('--allow-reformatting', default=None, store_true),
\* parser.add_argument('--upgrade-release', default='oldstable')
ScrubArgs == [allow_reformatting : {"None", "True"},
              upgrade_release : {"'oldstable'", "'stable'"}]

\* Config.from_workingtree: no file, or the settings of the file
ScrubConfigs ==
  {[exc |-> "FileNotFoundError", allow_reformatting |-> "None",
    update_changelog |-> "None"]}
  \cup [exc : {""}, allow_reformatting : {"None", "True", "False"},
        update_changelog : {"None", "False"}]

\* def __init__(self, upgrade_release, allow_reformatting=None)
ScrubObsoleteChanger(upgrade_release, allow_reformatting) ==
  [allow_reformatting |-> allow_reformatting,
   upgrade_release |-> upgrade_release]

\* return cls(args.allow_reformatting, args.upgrade_release)
from_args(a) == ScrubObsoleteChanger(a.allow_reformatting, a.upgrade_release)

InitScrub ==
  /\ NoRun
  /\ \E a \in ScrubArgs, u \in {"None", "True"} :
       changer = Some([name |-> "scrub-obsolete", pc |-> "from_args",
                       args |-> a,
                       self |-> ScrubObsoleteChanger("None", "None"),
                       update_changelog |-> u, allow_reformatting |-> "None",
                       release |-> "None", dropped |-> << >>,
                       result |-> EmptyDict, value |-> 0])

\* changer = ScrubObsoleteChanger.from_args(args)
ScrubFromArgs ==
  /\ changer # None
  /\ Ch.name = "scrub-obsolete"
  /\ Ch.pc = "from_args"
  /\ changer' = Some([Ch EXCEPT !.self = from_args(Ch.args),
                                !.pc = "config"])
  /\ ChangerUnchanged

\* make_changes: allow_reformatting and update_changelog from the Config
ScrubConfig ==
  /\ changer # None
  /\ Ch.name = "scrub-obsolete"
  /\ Ch.pc = "config"
  /\ \E cfg \in ScrubConfigs :
       changer' =
         Some([Ch EXCEPT
                 !.allow_reformatting =
                    IF cfg.exc = "" /\ Ch.self.allow_reformatting = "None"
                    THEN cfg.allow_reformatting
                    ELSE Ch.self.allow_reformatting,
                 !.update_changelog =
                    IF cfg.exc = "" /\ @ = "None"
                    THEN cfg.update_changelog ELSE @,
                 !.pc = "drop"])
  /\ ChangerUnchanged

\* dropped = drop_old_relations(editor, self.upgrade_release)
ScrubDrop ==
  /\ changer # None
  /\ Ch.name = "scrub-obsolete"
  /\ Ch.pc = "drop"
  /\ \E d \in Dropped :
       changer' = Some([Ch EXCEPT !.release = Ch.self.upgrade_release,
                                  !.dropped = d,
                                  !.pc = "result"])
  /\ ChangerUnchanged

\* result = {'control': dropped}; return ChangerResult(...)
ScrubResult ==
  /\ changer # None
  /\ Ch.name = "scrub-obsolete"
  /\ Ch.pc = "result"
  /\ LET res == [control |-> Ch.dropped]
     IN changer' = Some([Ch EXCEPT !.result = res,
                                   !.value = calculate_value(res),
                                   !.pc = "done"])
  /\ ChangerUnchanged

NextScrub ==
  \/ ScrubFromArgs
  \/ ScrubConfig
  \/ ScrubDrop
  \/ ScrubResult

SpecScrub == InitScrub /\ [][NextScrub]_vars

\* tidy.py: TidyChanger
SUBCHANGERS == <<"LintianBrushChanger", "MultiArchHintsChanger">>

\* the ChangerResult a subchanger may return
SubResults ==
  [mutator : {"applied", "nothing"},
   sufficient_for_proposal : BOOLEAN,
   tags : SUBSET {"lintian", "multiarch"},
   auxiliary_branches : SUBSET {"upstream", "pristine-tar"}]

\* attribute lookup on a set object: a set has its methods, no more
set_getattr(attr) ==
  IF attr \in {"update", "add", "union"} THEN "" ELSE "AttributeError"

\* for subchanger in result: commit_items.append(...); ', '.join().capitalize()
proposed_commit_message(res) ==
  IF Len(res) = 0 THEN "."
  ELSE IF Len(res) = 1
  THEN (IF res[1][1] = "LintianBrushChanger" THEN "Fix some lintian tags."
        ELSE "Apply multi-arch hints.")
  ELSE "Fix some lintian tags, apply multi-arch hints."

InitTidy ==
  /\ NoRun
  /\ changer = Some([name |-> "tidy", pc |-> "call", i |-> 1,
                     subresults |-> << >>, result |-> << >>, tags |-> {},
                     sufficient_for_proposal |-> FALSE,
                     auxiliary_branches |-> {}, exc |-> "",
                     returned |-> None])

\* subresult = subchanger.make_changes(local_tree, subpath, ...)
TidyCall ==
  /\ changer # None
  /\ Ch.name = "tidy"
  /\ Ch.pc = "call"
  /\ \E sub \in SubResults :
       changer' = Some([Ch EXCEPT !.subresults = Append(@, sub),
                                  !.pc = "aggregate"])
  /\ ChangerUnchanged

\* result[subchanger] = subresult.mutator; sufficient_for_proposal; tags
TidyAggregate ==
  /\ changer # None
  /\ Ch.name = "tidy"
  /\ Ch.pc = "aggregate"
  /\ LET sub == Ch.subresults[Ch.i]
     IN changer' =
          Some([Ch EXCEPT
                  !.result = Append(@, <<SUBCHANGERS[Ch.i], sub.mutator>>),
                  !.sufficient_for_proposal =
                     IF sub.sufficient_for_proposal THEN TRUE ELSE @,
                  !.tags = IF sub.tags # {} THEN @ \cup sub.tags ELSE @,
                  !.pc = "auxiliary"])
  /\ ChangerUnchanged

\* if tags.auxiliary_branches: auxiliary_branches.update(...); the end of
\* the loop; commit_items; return ChangerResult(...)
TidyAuxiliary ==
  /\ changer # None
  /\ Ch.name = "tidy"
  /\ Ch.pc = "auxiliary"
  /\ LET sub == Ch.subresults[Ch.i]
         exc == set_getattr("auxiliary_branches")
         aux == Ch.auxiliary_branches \cup sub.auxiliary_branches
     IN changer' =
          IF exc # ""
          THEN Some([Ch EXCEPT !.exc = exc, !.pc = "done"])
          ELSE IF Ch.i < Len(SUBCHANGERS)
          THEN Some([Ch EXCEPT !.auxiliary_branches = aux, !.i = @ + 1,
                               !.pc = "call"])
          ELSE Some([Ch EXCEPT
                       !.auxiliary_branches = aux,
                       !.returned =
                          Some([mutator |-> Ch.result,
                                description |-> "Fix various small issues.",
                                tags |-> Ch.tags,
                                auxiliary_branches |-> aux,
                                sufficient_for_proposal |->
                                   Ch.sufficient_for_proposal,
                                proposed_commit_message |->
                                   proposed_commit_message(Ch.result)]),
                       !.pc = "done"])
  /\ ChangerUnchanged

NextTidy ==
  \/ TidyCall
  \/ TidyAggregate
  \/ TidyAuxiliary

SpecTidy == InitTidy /\ [][NextTidy]_vars

\* the script of the run main started was launched
ScriptWasRun == main # None /\ p.state # "none"
MainEnded == main # None /\ M.pc = "done"

\* C18: in main the tree is checked clean before the script is launched; when
\* script_runner ends with an exception, reset_tree is called exactly once and
\* main ends with that same exception; a main that returns 0 never called
\* reset_tree.
C18_ResetOnException ==
  main # None =>
    /\ ScriptWasRun => M.checked
    /\ M.resets <= 1
    /\ (MainEnded /\ raised.exc # "") =>
         /\ M.resets = 1
         /\ M.exc = raised.exc
         /\ M.status = None
         /\ ~tree.pending
    /\ M.status = Some("0") => M.resets = 0

C18_Witness ==
  /\ MainEnded
  /\ raised.exc = "ScriptMadeNoChanges"
  /\ M.exc = "ScriptMadeNoChanges"
  /\ M.resets = 1
  /\ Get(after_script).pending

\* C19: whenever the script was run and main does not end with status 0, the
\* tree was reset before main ended; when the verify command fails after a
\* successful run, main returns 1 and the commit of the run is no longer the
\* tip of the branch.
C19_ResetUnlessSuccess ==
  (MainEnded /\ ScriptWasRun /\ M.status # Some("0")) =>
    /\ M.resets >= 1
    /\ M.verify_exc # "" =>
         /\ M.status = Some("1")
         /\ tree.tip = Get(M.tip)

\* C20: with no command argument and either no recipe or a recipe without a
\* command, main returns 1 without opening the tree or running anything.
C20_NoCommand ==
  (/\ MainEnded
   /\ M.args.command = None
   /\ (M.args.recipe = None \/ Get(M.args.recipe).command = None)) =>
    /\ M.status = Some("1")
    /\ M.exc = ""
    /\ ~M.opened
    /\ ~ScriptWasRun

\* C21: in the Debian main, when the build fails (BuildFailedError or
\* MissingUpstreamTarball) after a successful script run, the value main
\* returns differs from the 0 it returns on success.
C21_BuildFailureStatus ==
  (MainEnded /\ variant = "debian" /\ M.verify_exc # "") =>
    /\ M.status # None
    /\ python_int(Get(M.status)) # python_int("0")

\* C23: the commit_pending script_runner is called with is the one of the
\* --commit-pending flag when given (yes: True, no: False, auto: None),
\* whatever the recipe says; else the recipe's when a recipe is given; else
\* None.
C23_CommitPendingPolicy ==
  (main # None /\ M.pc \notin {"args", "open", "check", "call"}
     /\ M.checked) =>
    LET a == M.args
    IN arg_commit_pending =
         IF a.commit_pending = Some("yes") THEN Some(TRUE)
         ELSE IF a.commit_pending = Some("no") THEN Some(FALSE)
         ELSE IF a.commit_pending = Some("auto") THEN None
         ELSE IF a.recipe # None THEN Get(a.recipe).commit_pending
         ELSE None

C23_Witness ==
  /\ main # None
  /\ M.pc = "running"
  /\ p.state = "running"
  /\ M.args.commit_pending = Some("auto")
  /\ M.args.recipe # None
  /\ Get(M.args.recipe).commit_pending = Some(TRUE)
  /\ arg_commit_pending = None

\* C24: a child of a run without resume metadata has no SVP_RESUME in its
\* environment, whatever os.environ holds; every child has SVP_API = "1" and
\* SVP_RESULT inside the temporary directory of its run.
C24_ChildEnvironment ==
  p.state # "none" =>
    /\ ~TruthyMetadata(resume_metadata) => p.env["SVP_RESUME"] = None
    /\ p.env["SVP_API"] = Some("1")
    /\ p.env["SVP_RESULT"] = Some(ResultPath)
    /\ os_path_dirname(ResultPath) = TdPath

\* the packages of a result: one per paragraph, change and position
PackagesOf(res) ==
  LET control == IF res = EmptyDict THEN << >> ELSE res.control
  IN UNION {UNION {{<<i, j, k>> : k \in 1..Len(control[i][2][j][2])} :
                     j \in 1..Len(control[i][2])} :
              i \in 1..Len(control)}

\* C26: calculate_value returns 30 plus twice the number of packages of all
\* changes of all paragraphs of result['control']; never below 30; 30 when
\* 'control' is missing or no package was dropped.
C26_Value ==
  (changer # None /\ Ch.name = "calculate_value" /\ Ch.pc = "done") =>
    /\ Ch.value = 30 + 2 * Cardinality(PackagesOf(Ch.result))
    /\ Ch.value >= 30
    /\ (Ch.result = EmptyDict \/ PackagesOf(Ch.result) = {}) => Ch.value = 30

C26_Witness ==
  /\ changer # None
  /\ Ch.name = "calculate_value"
  /\ Ch.pc = "done"
  /\ Ch.result # EmptyDict
  /\ Len(Ch.result.control) = 2
  /\ Ch.value = 36

\* C25: a ScrubObsoleteChanger built by from_args has the value of
\* --upgrade-release as its upgrade_release, which is the release
\* make_changes passes to drop_old_relations, and the value of
\* --allow-reformatting as its allow_reformatting.
C25_FromArgs ==
  (changer # None /\ Ch.name = "scrub-obsolete" /\ Ch.pc # "from_args") =>
    /\ Ch.self.upgrade_release = Ch.args.upgrade_release
    /\ Ch.self.allow_reformatting = Ch.args.allow_reformatting
    /\ Ch.pc \in {"result", "done"} => Ch.release = Ch.args.upgrade_release

\* C22: TidyChanger.make_changes calls every subchanger, in SUBCHANGERS
\* order, and returns one ChangerResult: mutator maps each subchanger to its
\* sub-result, tags and auxiliary_branches are the unions over the
\* sub-results, sufficient_for_proposal holds iff some sub-result is
\* sufficient.
C22_TidyAggregates ==
  (changer # None /\ Ch.name = "tidy" /\ Ch.pc = "done") =>
    /\ Ch.exc = ""
    /\ Ch.returned # None
    /\ Len(Ch.subresults) = Len(SUBCHANGERS)
    /\ LET r == Get(Ch.returned)
           subs == Ch.subresults
       IN /\ r.mutator = [k \in 1..Len(subs) |->
                            <<SUBCHANGERS[k], subs[k].mutator>>]
          /\ r.tags = UNION {subs[k].tags : k \in 1..Len(subs)}
          /\ r.auxiliary_branches =
               UNION {subs[k].auxiliary_branches : k \in 1..Len(subs)}
          /\ r.sufficient_for_proposal =
               (\E k \in 1..Len(subs) : subs[k].sufficient_for_proposal)

====
